---- MODULE Spec2Model ----
(***************************************************************************)
(* A model of arkane/reference.py: ReferenceSpecies, its data entries and  *)
(* the ReferenceDatabase.  Python values are tagged records (field "type"  *)
(* is the Python type); a dict is the sequence of its (key, value) pairs   *)
(* in iteration order, keys distinct.  The module is read with Python 2    *)
(* semantics (dict.keys()/values() are lists), the dialect it was written  *)
(* in.                                                                     *)
(***************************************************************************)
EXTENDS Integers, Sequences, FiniteSets, TLC

VARIABLES rs, ret, reference_sets, loads, fs

vars == <<rs, ret, reference_sets, loads, fs>>

(***************************************************************************)
(* Bounds of the model.                                                    *)
(***************************************************************************)
\* longest reference_data mapping handed to the constructor
MaxRefEntries == 3
\* most files one directory listing holds
MaxFiles == 2
\* longest list of paths handed to one load call
MaxPaths == 2
\* number of load calls in one behaviour
MaxLoads == 2
\* longest list of indices / labels requested in one lookup
MaxKeys == 2

(***************************************************************************)
(* Python values.                                                          *)
(***************************************************************************)
None == [type |-> "NoneType"]
\* an instance attribute that no assignment has created yet: reading it
\* raises AttributeError
Undefined == [type |-> "undefined"]
PyStr(s) == [type |-> "str", s |-> s]
PyInt(n) == [type |-> "int", n |-> n]
PyList(items) == [type |-> "list", items |-> items]
PyDict(items) == [type |-> "dict", items |-> items]
EmptyDict == PyDict(<<>>)
\* a str holding a file-system path, kept as its segments
PyPath(segments) == [type |-> "path", segments |-> segments]

\* bool(value) is False
Falsy(value) ==
    \/ value.type = "NoneType"
    \/ value.type \in {"dict", "list"} /\ value.items = <<>>
    \/ value.type = "int" /\ value.n = 0
    \/ value.type = "str" /\ value.s = ""
    \/ value.type = "path" /\ value.segments = <<>>

Range(seq) == {seq[i] : i \in 1..Len(seq)}

\* dict operations on the pair-sequence representation
Keys(d) == [i \in 1..Len(d.items) |-> d.items[i][1]]
Values(d) == [i \in 1..Len(d.items) |-> d.items[i][2]]
HasKey(d, k) == \E i \in 1..Len(d.items) : d.items[i][1] = k
GetItem(d, k) == d.items[CHOOSE i \in 1..Len(d.items) : d.items[i][1] = k][2]
\* d[k] = v: an existing key keeps its place, a new key is added
SetItem(d, k, v) ==
    IF HasKey(d, k)
    THEN PyDict([i \in 1..Len(d.items) |->
                  IF d.items[i][1] = k THEN <<k, v>> ELSE d.items[i]])
    ELSE PyDict(Append(d.items, <<k, v>>))

\* results of a call
Return(value) == [kind |-> "return", value |-> value]
Raise(exc, about) == [kind |-> "raise", exc |-> exc, about |-> about]

(***************************************************************************)
(* Collaborators: ThermoData with its H298 quantity, Conformer.            *)
(***************************************************************************)
Quantity(value, uncertainty) ==
    [type |-> "ScalarQuantity", value_si |-> value, units |-> "kJ/mol",
     uncertainty_si |-> uncertainty]
ThermoData(value, uncertainty) ==
    [type |-> "ThermoData", H298 |-> Quantity(value, uncertainty)]
Conformer == [type |-> "Conformer"]
\* quantity.__reduce__()[1]: the plain constructor arguments of the quantity
Reduce1(q) == <<q.value_si, q.units, q.uncertainty_si>>

(***************************************************************************)
(* ReferenceDataEntry and CalculatedDataEntry.                             *)
(***************************************************************************)
\* ReferenceDataEntry.thermo_data setter: the stored _thermo_data, or the
\* error raised
RDE_thermo_data_setter(value) ==
    IF ~Falsy(value)
    THEN IF value.type = "ThermoData" THEN Return(value)
         ELSE Raise("ValueError", "thermo_data")
    ELSE Return(None)

ReferenceDataEntry(thermo_data, atct_id) ==
    LET t == RDE_thermo_data_setter(thermo_data) IN
    IF t.kind = "raise" THEN t
    ELSE Return([type |-> "ReferenceDataEntry", thermo_data |-> t.value,
                 atct_id |-> atct_id])

\* CalculatedDataEntry.conformer setter
CDE_conformer_setter(value) ==
    IF ~Falsy(value)
    THEN IF value.type = "Conformer" THEN Return(value)
         ELSE Raise("ValueError", "conformer")
    ELSE Return(None)

\* CalculatedDataEntry.thermo_data setter: a falsy value assigns nothing, and
\* _thermo_data keeps what it held (old)
CDE_thermo_data_setter(old, value) ==
    IF ~Falsy(value)
    THEN IF value.type = "ThermoData" THEN Return(value)
         ELSE Raise("ValueError", "thermo_data")
    ELSE Return(old)

CalculatedDataEntry(conformer, thermo_data, t1_diagnostic, fod) ==
    LET c == CDE_conformer_setter(conformer)
        t == CDE_thermo_data_setter(Undefined, thermo_data) IN
    IF c.kind = "raise" THEN c
    ELSE IF t.kind = "raise" THEN t
    ELSE Return([type |-> "CalculatedDataEntry", conformer |-> c.value,
                 thermo_data |-> t.value, t1_diagnostic |-> t1_diagnostic,
                 fod |-> fod])

(***************************************************************************)
(* ReferenceSpecies.                                                       *)
(***************************************************************************)
AllStr(seq) == \A i \in 1..Len(seq) : seq[i].type = "str"
AllOfType(seq, t) == \A i \in 1..Len(seq) : seq[i].type = t

\* the validated setter shared by reference_data and calculated_data: the
\* value the private attribute holds afterwards (old: what it held before),
\* or the error raised
data_setter(old, value, entry_type) ==
    IF Falsy(value) THEN Return(EmptyDict)
    ELSE IF value.type = "dict"
    THEN IF AllStr(Keys(value))
         THEN IF AllOfType(Values(value), entry_type)
              THEN Return(value)
              ELSE Return(old)
         ELSE Return(old)
    ELSE Raise("ValueError", entry_type)

\* ReferenceSpecies.reference_data setter
reference_data_setter(self, value) ==
    LET r == data_setter(self._reference_data, value, "ReferenceDataEntry") IN
    IF r.kind = "raise" THEN r
    ELSE Return([self EXCEPT !._reference_data = r.value])

\* ReferenceSpecies.calculated_data setter
calculated_data_setter(self, value) ==
    LET r == data_setter(self._calculated_data, value, "CalculatedDataEntry") IN
    IF r.kind = "raise" THEN r
    ELSE Return([self EXCEPT !._calculated_data = r.value])

\* the object __new__ allocates: no instance attribute exists yet
NewReferenceSpecies ==
    [type |-> "ReferenceSpecies", adjacency_list |-> Undefined,
     label |-> Undefined, _reference_data |-> Undefined,
     _calculated_data |-> Undefined, index |-> Undefined,
     preferred_reference |-> Undefined]

\* ReferenceSpecies.__init__ with the keyword arguments kw (species, smiles
\* and inchi not given): the constructed object, or the error raised
ReferenceSpecies_init(kw) ==
    IF Falsy(kw.adjacency_list) THEN Raise("ValueError", "identity")
    ELSE
    LET s0 == [NewReferenceSpecies EXCEPT
                  !.adjacency_list = kw.adjacency_list, !.label = kw.label]
        r1 == reference_data_setter(s0, kw.reference_data)
        r2 == calculated_data_setter(r1.value, kw.calculated_data)
    IN  IF r1.kind = "raise" THEN r1
        ELSE IF r2.kind = "raise" THEN r2
        ELSE Return([r2.value EXCEPT
                        !.index = kw.index,
                        !.preferred_reference = kw.preferred_reference])

\* the default choice of get_reference_enthalpy over data = the mapping's
\* values: position i is taken when its H298 uncertainty is positive and below
\* the running minimum; best is the position held so far
RECURSIVE ScanUncertainty(_, _, _, _)
ScanUncertainty(data, i, best, uncertainty) ==
    IF i > Len(data) THEN best
    ELSE LET u == data[i].thermo_data.H298.uncertainty_si IN
         IF (u > 0) /\ (u < uncertainty)
         THEN ScanUncertainty(data, i + 1, i, u)
         ELSE ScanUncertainty(data, i + 1, best, uncertainty)

\* PreferredSource with preferred_reference taking priority over the argument
PreferredSource_PreferredFirst(self, source) ==
    IF self.preferred_reference # None THEN Return(self.preferred_reference)
    ELSE IF source # None THEN Return(source)
    ELSE Return(Keys(self._reference_data)[1])

\* the source get_reference_enthalpy settles on (a Python value), or the
\* error raised on the way; reference_data is known to be non-empty
PreferredSource(self, source) ==
    IF source # None THEN Return(source)
    ELSE IF self.preferred_reference # None
    THEN Return(self.preferred_reference)
    ELSE LET sources == Keys(self._reference_data)
             data == Values(self._reference_data)
         IN  IF \E i \in 1..Len(data) : data[i].thermo_data = None
             THEN Raise("AttributeError", "H298")
             ELSE Return(sources[ScanUncertainty(
                      data, 1, 1, data[1].thermo_data.H298.uncertainty_si)])

\* get_reference_enthalpy testing for missing data only when it has to choose
\* the source itself
get_reference_enthalpy_LateCheck(self, source) ==
    IF self._reference_data = Undefined
    THEN Raise("AttributeError", "_reference_data")
    ELSE IF source = None /\ self.preferred_reference = None
            /\ Falsy(self._reference_data)
    THEN Raise("ValueError", "No reference data")
    ELSE LET p == PreferredSource(self, source) IN
         IF p.kind = "raise" THEN p
         ELSE IF ~HasKey(self._reference_data, p.value)
         THEN Raise("KeyError", p.value)
         ELSE LET entry == GetItem(self._reference_data, p.value) IN
              IF entry.thermo_data = None
              THEN Raise("AttributeError", "H298")
              ELSE Return([h298 |-> Reduce1(entry.thermo_data.H298),
                           source |-> p.value])

\* ReferenceSpecies.get_reference_enthalpy
get_reference_enthalpy(self, source) ==
    IF self._reference_data = Undefined
    THEN Raise("AttributeError", "_reference_data")
    ELSE IF Falsy(self._reference_data)
    THEN Raise("ValueError", "No reference data")
    ELSE LET p == PreferredSource(self, source) IN
         IF p.kind = "raise" THEN p
         ELSE IF ~HasKey(self._reference_data, p.value)
         THEN Raise("KeyError", p.value)
         ELSE LET entry == GetItem(self._reference_data, p.value) IN
              IF entry.thermo_data = None
              THEN Raise("AttributeError", "H298")
              ELSE Return([h298 |-> Reduce1(entry.thermo_data.H298),
                           source |-> p.value])

\* to_error_canceling_spcs resolving the reference enthalpy before it looks
\* the model chemistry up
to_error_canceling_spcs_EnthalpyFirst(self, model_chemistry, source) ==
    LET reference_enthalpy == get_reference_enthalpy(self, source) IN
    IF reference_enthalpy.kind = "raise" THEN reference_enthalpy
    ELSE IF self._calculated_data = Undefined
    THEN Raise("AttributeError", "_calculated_data")
    ELSE IF ~HasKey(self._calculated_data, model_chemistry)
    THEN Raise("KeyError", model_chemistry)
    ELSE Return([type |-> "ErrorCancelingSpecies"])

\* ReferenceSpecies.to_error_canceling_spcs: the ErrorCancelingSpecies built,
\* or the error raised
to_error_canceling_spcs(self, model_chemistry, source) ==
    IF self._calculated_data = Undefined
    THEN Raise("AttributeError", "_calculated_data")
    ELSE IF ~HasKey(self._calculated_data, model_chemistry)
    THEN Raise("KeyError", model_chemistry)
    ELSE LET reference_enthalpy == get_reference_enthalpy(self, source)
             calc == GetItem(self._calculated_data, model_chemistry)
         IN  IF reference_enthalpy.kind = "raise" THEN reference_enthalpy
             ELSE IF calc.thermo_data = Undefined
             THEN Raise("AttributeError", "_thermo_data")
             ELSE Return([type |-> "ErrorCancelingSpecies",
                          molecule |-> self.adjacency_list,
                          low_level_hf298 |-> Reduce1(calc.thermo_data.H298),
                          model_chemistry |-> model_chemistry,
                          high_level_hf298 |-> reference_enthalpy.value.h298,
                          source |-> reference_enthalpy.value.source])

\* update_from_arkane_spcs writing the new conformer and thermo data into the
\* entry the model chemistry already has, whose t1_diagnostic and fod stay
update_from_arkane_spcs_KeepDiagnostics(self, arkane_species) ==
    LET calc_data == CalculatedDataEntry(arkane_species.conformer,
                                         arkane_species.thermo_data, None, None)
        key == arkane_species.level_of_theory
    IN  IF calc_data.kind = "raise" THEN calc_data
        ELSE IF self._calculated_data = Undefined
        THEN Raise("AttributeError", "_calculated_data")
        ELSE IF HasKey(self._calculated_data, key)
        THEN LET prior == GetItem(self._calculated_data, key) IN
             Return([self EXCEPT !._calculated_data =
                        SetItem(self._calculated_data, key,
                                [calc_data.value EXCEPT
                                    !.t1_diagnostic = prior.t1_diagnostic,
                                    !.fod = prior.fod])])
        ELSE Return([self EXCEPT !._calculated_data =
                        SetItem(self._calculated_data, key, calc_data.value)])

\* ReferenceSpecies.update_from_arkane_spcs: the species afterwards, or the
\* error raised
update_from_arkane_spcs(self, arkane_species) ==
    LET calc_data == CalculatedDataEntry(arkane_species.conformer,
                                         arkane_species.thermo_data, None, None)
    IN  IF calc_data.kind = "raise" THEN calc_data
        ELSE IF self._calculated_data = Undefined
        THEN Raise("AttributeError", "_calculated_data")
        ELSE Return([self EXCEPT !._calculated_data =
                        SetItem(self._calculated_data,
                                arkane_species.level_of_theory, calc_data.value)])

(***************************************************************************)
(* ReferenceDatabase.                                                      *)
(***************************************************************************)
\* adjacency-list texts and the molecule each one describes: "A1", "A2" and
\* "A3" are three texts of one molecule, "B1" and "B2" two texts of another
MoleculeOfText ==
    [t \in {"A1", "A2", "A3", "B1", "B2"} |->
        IF t \in {"A1", "A2", "A3"} THEN "A" ELSE "B"]
\* Molecule().fromAdjacencyList(adjacency_list)
Molecule_fromAdjacencyList(adjacency_list) ==
    [type |-> "Molecule", adjacency_list |-> adjacency_list.s]
\* molecule.isIsomorphic(mol)
isIsomorphic(molecule, mol) ==
    MoleculeOfText[molecule.adjacency_list] = MoleculeOfText[mol.adjacency_list]

\* os.path.basename(path)
Basename(path) == path[Len(path)]
\* os.path.join(settings['database.directory'], 'reference_sets/main')
DefaultPath == <<"rmgdb", "reference_sets", "main">>

\* ReferenceSpecies.load_yaml on a freshly allocated object: the species the
\* document doc describes, or the error raised
load_yaml(doc) ==
    IF doc.class # "ReferenceSpecies" THEN Raise("ValueError", "class")
    ELSE ReferenceSpecies_init(
            [adjacency_list |-> doc.adjacency_list, label |-> doc.label,
             index |-> doc.index, reference_data |-> doc.reference_data,
             calculated_data |-> doc.calculated_data,
             preferred_reference |-> doc.preferred_reference])

\* the skip test of load with "and" for "or"
LacksData_Both(ref_spcs) ==
    IF ref_spcs._calculated_data = Undefined
    THEN Raise("AttributeError", "_calculated_data")
    ELSE IF Len(ref_spcs._calculated_data.items) # 0 THEN Return(FALSE)
    ELSE IF ref_spcs._reference_data = Undefined
    THEN Raise("AttributeError", "_reference_data")
    ELSE Return(Len(ref_spcs._reference_data.items) = 0)

\* (len(calculated_data) == 0) or (len(reference_data) == 0), the test that
\* makes load skip a species for want of data: its value, or the error raised
\* by reading a field that was never assigned
LacksData(ref_spcs) ==
    IF ref_spcs._calculated_data = Undefined
    THEN Raise("AttributeError", "_calculated_data")
    ELSE IF Len(ref_spcs._calculated_data.items) = 0 THEN Return(TRUE)
    ELSE IF ref_spcs._reference_data = Undefined
    THEN Raise("AttributeError", "_reference_data")
    ELSE Return(Len(ref_spcs._reference_data.items) = 0)

\* the molecules load tests a new one against: those of the whole call
\* (molecule_list), of which the first n_before were there when the
\* current path began
Candidates_ThisPathOnly(molecule_list, n_before) ==
    SubSeq(molecule_list, n_before + 1, Len(molecule_list))

Candidates(molecule_list, n_before) == molecule_list

\* the loop of load over the files of one directory, from file i on: st
\* holds molecule_list, reference_set and exc (None, or the error that ends
\* the call); n_before is the length molecule_list had when the path began
RECURSIVE LoadFiles(_, _, _, _)
LoadFiles(spcs_files, i, st, n_before) ==
    IF i > Len(spcs_files) THEN st
    ELSE
    LET r == load_yaml(spcs_files[i]) IN
    IF r.kind = "raise" THEN [st EXCEPT !.exc = r]
    ELSE
    LET ref_spcs == r.value
        molecule == Molecule_fromAdjacencyList(ref_spcs.adjacency_list)
        lacks == LacksData(ref_spcs)
        known == Candidates(st.molecule_list, n_before)
    IN
    IF lacks.kind = "raise" THEN [st EXCEPT !.exc = lacks]
    ELSE IF lacks.value
    THEN LoadFiles(spcs_files, i + 1, st, n_before)
    ELSE IF \E j \in 1..Len(known) : isIsomorphic(molecule, known[j])
    THEN LoadFiles(spcs_files, i + 1, st, n_before)
    ELSE LoadFiles(spcs_files, i + 1,
                   [st EXCEPT !.molecule_list = Append(@, molecule),
                              !.reference_set = Append(@, ref_spcs)],
                   n_before)

\* self.reference_sets[set_name] = reference_set
AssignSet(sets, set_name, reference_set) ==
    [n \in DOMAIN sets \cup {set_name} |->
        IF n = set_name THEN reference_set ELSE sets[n]]

\* the loop of load over paths, from path k on; listdir gives the files of
\* each directory in the order os.listdir returns them.  The result holds
\* reference_sets afterwards, exc, the error that ended the call (or None),
\* and completed, the number of paths worked through to their assignment
RECURSIVE LoadPaths(_, _, _, _, _)
LoadPaths(paths, k, sets, molecule_list, listdir) ==
    IF k > Len(paths)
    THEN [reference_sets |-> sets, exc |-> None, completed |-> k - 1]
    ELSE
    LET set_name == Basename(paths[k])
        st == LoadFiles(listdir[paths[k]], 1,
                        [molecule_list |-> molecule_list,
                         reference_set |-> <<>>, exc |-> None],
                        Len(molecule_list))
    IN  IF st.exc # None
        THEN [reference_sets |-> sets, exc |-> st.exc, completed |-> k - 1]
        ELSE LoadPaths(paths, k + 1,
                       AssignSet(sets, set_name, st.reference_set),
                       st.molecule_list, listdir)

\* the list of paths load works through for its argument
PathList(paths) ==
    IF Falsy(paths) THEN <<DefaultPath>>
    ELSE IF paths.type = "path" THEN <<paths.segments>>
    ELSE [k \in 1..Len(paths.items) |-> paths.items[k].segments]

\* load with a failing file skipped together with the rest of its path: the
\* call goes on to the next path and raises nothing
RECURSIVE LoadPaths_SkipFailingPath(_, _, _, _, _)
LoadPaths_SkipFailingPath(paths, k, sets, molecule_list, listdir) ==
    IF k > Len(paths)
    THEN [reference_sets |-> sets, exc |-> None, completed |-> k - 1]
    ELSE
    LET st == LoadFiles(listdir[paths[k]], 1,
                        [molecule_list |-> molecule_list,
                         reference_set |-> <<>>, exc |-> None],
                        Len(molecule_list))
    IN  IF st.exc # None
        THEN LoadPaths_SkipFailingPath(paths, k + 1, sets, molecule_list,
                                       listdir)
        ELSE LoadPaths_SkipFailingPath(
                 paths, k + 1,
                 AssignSet(sets, Basename(paths[k]), st.reference_set),
                 st.molecule_list, listdir)
load_SkipFailingPath(sets, paths, listdir) ==
    LoadPaths_SkipFailingPath(PathList(paths), 1, sets, <<>>, listdir)

\* ReferenceDatabase.load
load(sets, paths, listdir) == LoadPaths(PathList(paths), 1, sets, <<>>, listdir)

\* int(index) for an index that is not an int: the literals the model uses
IntLiteral == [s \in {"1", "2", "99"} |-> IF s = "1" THEN 1
                                          ELSE IF s = "2" THEN 2 ELSE 99]
ToInt(index) ==
    IF index.type = "int" THEN Return(index)
    ELSE IF index.type = "str" /\ index.s \in DOMAIN IntLiteral
    THEN Return(PyInt(IntLiteral[index.s]))
    ELSE Raise("ValueError", "invalid literal for int()")
\* str(label) for a label that is not a str
StrOfInt == [n \in {1, 2, 99} |-> IF n = 1 THEN "1"
                                  ELSE IF n = 2 THEN "2" ELSE "99"]
ToStr(label) ==
    IF label.type = "str" THEN Return(label)
    ELSE Return(PyStr(StrOfInt[label.n]))

\* the linear scan of a lookup taking the last match instead of the first
Scan_LastMatch(search_set, field, key) ==
    IF \E i \in 1..Len(search_set) : search_set[i][field] = key
    THEN CHOOSE i \in 1..Len(search_set) :
            /\ search_set[i][field] = key
            /\ \A j \in 1..Len(search_set) :
                  search_set[j][field] = key => j <= i
    ELSE 0

\* the inner loop of the two lookups: the position of the first species of
\* search_set whose field equals key, 0 when the loop ends without a break
Scan(search_set, field, key) ==
    IF \E i \in 1..Len(search_set) : search_set[i][field] = key
    THEN CHOOSE i \in 1..Len(search_set) :
            /\ search_set[i][field] = key
            /\ \A j \in 1..i - 1 : search_set[j][field] # key
    ELSE 0

\* the outer loop of the two lookups over the requested keys, from key k on;
\* found is reference_species_list so far
RECURSIVE Lookup(_, _, _, _, _, _)
Lookup(search_set, set_name, field, keys, k, found) ==
    IF k > Len(keys) THEN Return(found)
    ELSE LET key == IF field = "index" THEN ToInt(keys[k]) ELSE ToStr(keys[k])
         IN  IF key.kind = "raise" THEN key
             ELSE LET i == Scan(search_set, field, key.value) IN
                  IF i = 0
                  THEN Raise("ValueError",
                             [key |-> key.value, set_name |-> set_name])
                  ELSE Lookup(search_set, set_name, field, keys, k + 1,
                              Append(found, search_set[i]))

\* the list a lookup works through for its first argument
AsList(value) == IF value.type # "list" THEN <<value>> ELSE value.items

\* ReferenceDatabase.get_species_from_index
get_species_from_index(sets, indices, set_name) ==
    IF set_name \notin DOMAIN sets THEN Raise("KeyError", set_name)
    ELSE Lookup(sets[set_name], set_name, "index", AsList(indices), 1, <<>>)

\* ReferenceDatabase.get_species_from_label
get_species_from_label(sets, labels, set_name) ==
    IF set_name \notin DOMAIN sets THEN Raise("KeyError", set_name)
    ELSE Lookup(sets[set_name], set_name, "label", AsList(labels), 1, <<>>)

\* the filter of extract_model_chemistry without its model chemistry test
Selected_AnyChemistry(ref_spcs, model_chemistry) ==
    ~Falsy(ref_spcs._reference_data)

\* the filter of extract_model_chemistry: the species is collected
Selected(ref_spcs, model_chemistry) ==
    /\ HasKey(ref_spcs._calculated_data, model_chemistry)
    /\ ~Falsy(ref_spcs._reference_data)

\* the collecting loop of extract_model_chemistry over the set names, from
\* name k on
RECURSIVE Collect(_, _, _, _, _)
Collect(sets, model_chemistry, names, k, reference_list) ==
    IF k > Len(names) THEN Return(reference_list)
    ELSE IF names[k] \notin DOMAIN sets THEN Raise("KeyError", names[k])
    ELSE Collect(sets, model_chemistry, names, k + 1,
                 reference_list \o
                 SelectSeq(sets[names[k]],
                           LAMBDA ref_spcs : Selected(ref_spcs, model_chemistry)))

\* the list comprehension of extract_model_chemistry, from element k on
RECURSIVE Convert(_, _, _, _)
Convert(reference_list, model_chemistry, k, converted) ==
    IF k > Len(reference_list) THEN Return(converted)
    ELSE LET r == to_error_canceling_spcs(reference_list[k], model_chemistry,
                                          None)
         IN  IF r.kind = "raise" THEN r
             ELSE Convert(reference_list, model_chemistry, k + 1,
                          Append(converted, r.value))

\* extract_model_chemistry with the test of as_error_canceling_species
\* inverted
extract_model_chemistry_FlagInverted(sets, model_chemistry, names, as_error_canceling_species) ==
    LET reference_list == Collect(sets, model_chemistry, names, 1, <<>>) IN
    IF reference_list.kind = "raise" THEN reference_list
    ELSE IF ~as_error_canceling_species
    THEN Convert(reference_list.value, model_chemistry, 1, <<>>)
    ELSE reference_list

\* ReferenceDatabase.extract_model_chemistry; names is the list of set names
\* it iterates: the argument, or reference_sets.keys() in the order the
\* dict yields them
extract_model_chemistry(sets, model_chemistry, names, as_error_canceling_species) ==
    LET reference_list == Collect(sets, model_chemistry, names, 1, <<>>) IN
    IF reference_list.kind = "raise" THEN reference_list
    ELSE IF as_error_canceling_species
    THEN Convert(reference_list.value, model_chemistry, 1, <<>>)
    ELSE reference_list

(***************************************************************************)
(* The values the operations are called with.                              *)
(***************************************************************************)
Sources == {"s1", "s2", "s3"}
ModelChemistries == {"mc1", "mc2"}

RefEntry(value, uncertainty) ==
    ReferenceDataEntry(ThermoData(value, uncertainty), None).value
\* a reference entry built with no thermo data
RefEntryNoThermo == ReferenceDataEntry(None, None).value
RefEntryChoices ==
    {RefEntry(100, 0), RefEntry(200, 2), RefEntry(300, 5), RefEntry(400, -1),
     RefEntryNoThermo}

CalcEntry(value) ==
    CalculatedDataEntry(Conformer, ThermoData(value, 1), None, None).value
\* a calculated entry built with no thermo data
CalcEntryNoThermo == CalculatedDataEntry(Conformer, None, None, None).value

DistinctKeys(items) ==
    \A i, j \in 1..Len(items) : items[i][1] = items[j][1] => i = j

\* every reference_data mapping of 1..MaxRefEntries entries, in every
\* iteration order
RefDicts ==
    {PyDict(items) : items \in
        {it \in UNION {[1..n -> {<<PyStr(k), e>> : k \in Sources,
                                                   e \in RefEntryChoices}] :
                         n \in 1..MaxRefEntries} : DistinctKeys(it)}}

\* values of a wrong shape for reference_data
BadKeyRefDict == PyDict(<< <<PyInt(1), RefEntry(200, 2)>> >>)
BadValueRefDict == PyDict(<< <<PyStr("s1"), CalcEntry(10)>> >>)
BadKeyCalcDict == PyDict(<< <<PyInt(1), CalcEntry(10)>> >>)
BadValueCalcDict == PyDict(<< <<PyStr("mc1"), RefEntry(200, 2)>> >>)
NonMappings == {PyList(<<PyStr("s1")>>), PyStr("s1"), PyInt(5)}
FalsyValues == {None, EmptyDict, PyList(<<>>), PyInt(0)}

CalcDicts ==
    {PyDict(<< <<PyStr("mc1"), CalcEntry(10)>> >>),
     PyDict(<< <<PyStr("mc1"), CalcEntryNoThermo>> >>),
     PyDict(<< <<PyStr("mc2"), CalcEntry(20)>>, <<PyStr("mc1"), CalcEntry(10)>> >>)}

\* what the species-level operations are handed in the life-cycle
\* specification
SmallRefValues ==
    FalsyValues \cup NonMappings \cup {BadKeyRefDict, BadValueRefDict} \cup
    {PyDict(<< <<PyStr("s1"), RefEntry(100, 0)>> >>),
     PyDict(<< <<PyStr("s2"), RefEntry(300, 5)>>,
               <<PyStr("s1"), RefEntry(200, 2)>> >>)}
\* calculated data whose entry carries a t1_diagnostic and a fod
CalcDiagnosed ==
    PyDict(<< <<PyStr("mc1"),
                CalculatedDataEntry(Conformer, ThermoData(10, 1),
                                    PyInt(1), PyInt(2)).value>> >>)
SmallCalcValues ==
    FalsyValues \cup NonMappings \cup {BadKeyCalcDict, BadValueCalcDict} \cup
    CalcDicts \cup {CalcDiagnosed}

SourceArgs == {None, PyStr("s1"), PyStr("s2")}
PreferredArgs == {None, PyStr("s2")}
ChemistryArgs == {PyStr(m) : m \in ModelChemistries}

CtorArgs(identities, refs, calcs) ==
    [adjacency_list : identities, label : {None}, index : {None},
     reference_data : refs, calculated_data : calcs,
     preferred_reference : PreferredArgs]

\* computed-job results handed to update_from_arkane_spcs
ArkaneSpecies ==
    [conformer : {Conformer, None}, thermo_data : {ThermoData(30, 1), None},
     level_of_theory : ChemistryArgs]

(***************************************************************************)
(* The state: rs is the one ReferenceSpecies under study, ret the last     *)
(* call made and its result, reference_sets the database's attribute and   *)
(* loads the number of load calls made.                                    *)
(***************************************************************************)
NoObject == [type |-> "NoObject"]
NoSets == [n \in {} |-> <<>>]
NoFiles == [d \in {} |-> <<>>]
NoCall == [op |-> "none"]
Call(op, args, out) == [op |-> op, args |-> args, out |-> out]

\* ReferenceSpecies(...): a failed __init__ leaves no object behind
Construct ==
    /\ rs = NoObject
    /\ \E kw \in CtorArgs({None, PyStr("A1")}, SmallRefValues, SmallCalcValues) :
          LET r == ReferenceSpecies_init(kw) IN
          /\ rs' = IF r.kind = "return" THEN r.value ELSE rs
          /\ ret' = Call("__init__", kw,
                         IF r.kind = "return" THEN Return(None) ELSE r)
    /\ UNCHANGED <<reference_sets, loads, fs>>

\* spcs.reference_data = value
AssignReferenceData ==
    /\ rs # NoObject
    /\ \E value \in SmallRefValues :
          LET r == reference_data_setter(rs, value) IN
          /\ rs' = IF r.kind = "return" THEN r.value ELSE rs
          /\ ret' = Call("reference_data.setter", value,
                         IF r.kind = "return" THEN Return(None) ELSE r)
    /\ UNCHANGED <<reference_sets, loads, fs>>

\* spcs.calculated_data = value
AssignCalculatedData ==
    /\ rs # NoObject
    /\ \E value \in SmallCalcValues :
          LET r == calculated_data_setter(rs, value) IN
          /\ rs' = IF r.kind = "return" THEN r.value ELSE rs
          /\ ret' = Call("calculated_data.setter", value,
                         IF r.kind = "return" THEN Return(None) ELSE r)
    /\ UNCHANGED <<reference_sets, loads, fs>>

\* spcs.update_from_arkane_spcs(arkane_species)
UpdateFromArkaneSpcs ==
    /\ rs # NoObject
    /\ \E a \in ArkaneSpecies :
          LET r == update_from_arkane_spcs(rs, a) IN
          /\ rs' = IF r.kind = "return" THEN r.value ELSE rs
          /\ ret' = Call("update_from_arkane_spcs", a,
                         IF r.kind = "return" THEN Return(None) ELSE r)
    /\ UNCHANGED <<reference_sets, loads, fs>>

\* spcs.get_reference_enthalpy(source)
GetReferenceEnthalpy ==
    /\ rs # NoObject
    /\ \E source \in SourceArgs :
          ret' = Call("get_reference_enthalpy", [source |-> source],
                      get_reference_enthalpy(rs, source))
    /\ UNCHANGED <<rs, reference_sets, loads, fs>>

\* spcs.to_error_canceling_spcs(model_chemistry, source)
ToErrorCancelingSpcs ==
    /\ rs # NoObject
    /\ \E model_chemistry \in ChemistryArgs, source \in SourceArgs :
          ret' = Call("to_error_canceling_spcs",
                      [model_chemistry |-> model_chemistry, source |-> source],
                      to_error_canceling_spcs(rs, model_chemistry, source))
    /\ UNCHANGED <<rs, reference_sets, loads, fs>>

\* the life cycle of one ReferenceSpecies
Init ==
    /\ rs = NoObject
    /\ ret = NoCall
    /\ reference_sets = NoSets
    /\ loads = 0
    /\ fs = NoFiles

Next ==
    \/ Construct
    \/ AssignReferenceData
    \/ AssignCalculatedData
    \/ UpdateFromArkaneSpcs
    \/ GetReferenceEnthalpy
    \/ ToErrorCancelingSpcs

Spec == Init /\ [][Next]_vars

\* the enthalpy queries on every species the constructor can build
InitEnthalpy ==
    /\ rs \in {ReferenceSpecies_init(kw).value :
                 kw \in CtorArgs({PyStr("A1")},
                                 RefDicts \cup {None, BadKeyRefDict},
                                 CalcDicts \cup {None})}
    /\ ret = NoCall
    /\ reference_sets = NoSets
    /\ loads = 0
    /\ fs = NoFiles

NextEnthalpy ==
    \/ GetReferenceEnthalpy
    \/ ToErrorCancelingSpcs

SpecEnthalpy == InitEnthalpy /\ [][NextEnthalpy]_vars

(***************************************************************************)
(* The files of the reference sets and the calls on the database.          *)
(***************************************************************************)
Doc(class, adjacency_list, index, label, reference_data, calculated_data, preferred_reference) ==
    [class |-> class, adjacency_list |-> PyStr(adjacency_list),
     index |-> index, label |-> label, reference_data |-> reference_data,
     calculated_data |-> calculated_data,
     preferred_reference |-> preferred_reference]

RefOne(source, value, uncertainty) ==
    PyDict(<< <<PyStr(source), RefEntry(value, uncertainty)>> >>)
CalcOne(model_chemistry, value) ==
    PyDict(<< <<PyStr(model_chemistry), CalcEntry(value)>> >>)
CalcTwo ==
    PyDict(<< <<PyStr("mc2"), CalcEntry(20)>>, <<PyStr("mc1"), CalcEntry(10)>> >>)

DocA1 == Doc("ReferenceSpecies", "A1", PyInt(1), PyStr("a"),
             RefOne("s1", 100, 2), CalcOne("mc1", 10), None)
\* the molecule of DocA1 in another text; preferred_reference names a source
\* the file has no data for
DocA2 == Doc("ReferenceSpecies", "A2", PyInt(2), PyStr("b"),
             RefOne("s2", 300, 5), CalcTwo, PyStr("s1"))
\* the molecule of DocA1 again, with no calculated data
DocA3NoCalc == Doc("ReferenceSpecies", "A3", PyInt(3), PyStr("c"),
                   RefOne("s1", 100, 2), None, None)
\* another molecule, under the index and the label of DocA2
DocB1 == Doc("ReferenceSpecies", "B1", PyInt(2), PyStr("b"),
             RefOne("s1", 200, 0), CalcOne("mc2", 20), None)
\* the molecule of DocB1 again, with no reference data
DocB2NoRef == Doc("ReferenceSpecies", "B2", PyInt(4), PyStr("d"),
                  EmptyDict, CalcOne("mc1", 10), None)
\* the molecule of DocB1 once more; its one reference entry has no thermo
\* data
DocB3NoThermo == Doc("ReferenceSpecies", "B2", PyInt(4), PyStr("d"),
                     PyDict(<< <<PyStr("s1"), RefEntryNoThermo>> >>),
                     CalcOne("mc2", 20), None)
\* the molecule of DocB1 with two sources, of which preferred_reference names
\* the one of larger uncertainty
DocB4Preferred == Doc("ReferenceSpecies", "B1", PyInt(3), PyStr("c"),
                      PyDict(<< <<PyStr("s1"), RefEntry(200, 2)>>,
                                <<PyStr("s2"), RefEntry(300, 5)>> >>),
                      CalcOne("mc1", 10), PyStr("s2"))
\* a file of another class
DocOtherClass == Doc("ArkaneSpecies", "B1", PyInt(5), PyStr("e"),
                     RefOne("s1", 200, 0), CalcOne("mc2", 20), None)
\* a file whose reference_data has a key that is no string
DocBadKey == Doc("ReferenceSpecies", "B1", PyInt(6), PyStr("f"),
                 BadKeyRefDict, CalcOne("mc2", 20), None)

MainPath == DefaultPath
AltMainPath == <<"alt", "main">>
ExtraPath == <<"alt", "extra">>
Dirs == {MainPath, AltMainPath, ExtraPath}

\* the files a directory may hold
FilePool ==
    [d \in Dirs |->
        IF d = MainPath THEN {DocA1, DocA2, DocA3NoCalc}
        ELSE IF d = AltMainPath THEN {DocA2, DocB1, DocOtherClass, DocBadKey}
        ELSE {DocB1, DocB2NoRef, DocA1}]

Injective(seq) == \A i, j \in 1..Len(seq) : seq[i] = seq[j] => i = j
\* what os.listdir may return for a directory holding files of pool: up to
\* MaxFiles of them, in any order
Listings(pool) ==
    {l \in UNION {[1..n -> pool] : n \in 0..MaxFiles} : Injective(l)}
FileSystems ==
    {f \in [Dirs -> UNION {Listings(FilePool[d]) : d \in Dirs}] :
        \A d \in Dirs : f[d] \in Listings(FilePool[d])}

\* the paths argument of load
PathArgs ==
    {PyPath(<<>>), PyPath(ExtraPath)} \cup
    {PyList(ps) : ps \in UNION {[1..n -> {PyPath(d) : d \in Dirs}] :
                                  n \in 0..MaxPaths}}

\* database.load(paths)
Load ==
    /\ loads < MaxLoads
    /\ \E paths \in PathArgs :
          LET r == load(reference_sets, paths, fs) IN
          /\ reference_sets' = r.reference_sets
          /\ ret' = [op |-> "load", args |-> [paths |-> paths],
                     out |-> IF r.exc = None THEN Return(None) ELSE r.exc,
                     completed |-> r.completed]
    /\ loads' = loads + 1
    /\ UNCHANGED <<rs, fs>>

\* load calls on a new database, over every file system
InitLoad ==
    /\ rs = NoObject
    /\ ret = NoCall
    /\ reference_sets = NoSets
    /\ loads = 0
    /\ fs \in FileSystems

NextLoad == Load

SpecLoad == InitLoad /\ [][NextLoad]_vars

\* the requests of the lookups
IndexArgs ==
    {PyInt(2), PyStr("2")} \cup
    {PyList(ks) : ks \in UNION {[1..n -> {PyInt(1), PyInt(2), PyInt(99)}] :
                                  n \in 0..MaxKeys}}
LabelArgs ==
    {PyStr("b"), PyInt(2)} \cup
    {PyList(ks) : ks \in UNION {[1..n -> {PyStr("a"), PyStr("b"), PyStr("zz")}] :
                                  n \in 0..MaxKeys}}
SetNameArgs == {"main", "extra"}
\* the sets argument of extract_model_chemistry
SetsArgs ==
    {None, PyList(<<"main">>), PyList(<<"extra", "main">>),
     PyList(<<"main", "main">>), PyList(<<"other">>)}

\* every order in which a dict with the keys of names may yield them
Orders(names) ==
    {o \in [1..Cardinality(names) -> names] : Injective(o)}

\* database.get_species_from_index(indices, set_name)
GetSpeciesFromIndex ==
    /\ \E indices \in IndexArgs, set_name \in SetNameArgs :
          ret' = Call("get_species_from_index",
                      [indices |-> indices, set_name |-> set_name],
                      get_species_from_index(reference_sets, indices, set_name))
    /\ UNCHANGED <<rs, reference_sets, loads, fs>>

\* database.get_species_from_label(labels, set_name)
GetSpeciesFromLabel ==
    /\ \E labels \in LabelArgs, set_name \in SetNameArgs :
          ret' = Call("get_species_from_label",
                      [labels |-> labels, set_name |-> set_name],
                      get_species_from_label(reference_sets, labels, set_name))
    /\ UNCHANGED <<rs, reference_sets, loads, fs>>

\* database.extract_model_chemistry(model_chemistry, sets,
\* as_error_canceling_species)
ExtractModelChemistry ==
    /\ \E model_chemistry \in ChemistryArgs, sets \in SetsArgs,
          as_error_canceling_species \in BOOLEAN :
          \E names \in IF sets = None THEN Orders(DOMAIN reference_sets)
                        ELSE {sets.items} :
             ret' = [op |-> "extract_model_chemistry",
                     args |-> [model_chemistry |-> model_chemistry,
                               sets |-> sets,
                               as_error_canceling_species |->
                                   as_error_canceling_species],
                     names |-> names,
                     out |-> extract_model_chemistry(
                                 reference_sets, model_chemistry, names,
                                 as_error_canceling_species)]
    /\ UNCHANGED <<rs, reference_sets, loads, fs>>

\* a caller that holds a species of the database empties its reference
\* data: ref_spcs.reference_data = None (one emptied species at a time)
ClearHeldReferenceData ==
    /\ \A n \in DOMAIN reference_sets : \A i \in 1..Len(reference_sets[n]) :
          ~Falsy(reference_sets[n][i]._reference_data)
    /\ \E n \in DOMAIN reference_sets : \E i \in 1..Len(reference_sets[n]) :
          /\ reference_sets' =
                [reference_sets EXCEPT
                    ![n][i] = reference_data_setter(@, None).value]
          /\ ret' = Call("held.reference_data.setter",
                         [set_name |-> n, position |-> i], Return(None))
    /\ UNCHANGED <<rs, loads, fs>>

\* the file systems the queries are studied on: one tree of reference sets,
\* os.listdir yielding alt/main in either order
QueryFileSystems ==
    {[d \in Dirs |->
        IF d = MainPath THEN <<DocA1, DocB4Preferred>>
        ELSE IF d = AltMainPath THEN alt_main
        ELSE <<DocB3NoThermo, DocA1>>] :
     alt_main \in {<<DocA2, DocB1>>, <<DocB1, DocA2>>}}

\* a database that is loaded and queried
InitDB ==
    /\ rs = NoObject
    /\ ret = NoCall
    /\ reference_sets = NoSets
    /\ loads = 0
    /\ fs \in QueryFileSystems

NextDB ==
    \/ Load
    \/ GetSpeciesFromIndex
    \/ GetSpeciesFromLabel
    \/ ExtractModelChemistry
    \/ ClearHeldReferenceData

SpecDB == InitDB /\ [][NextDB]_vars

(***************************************************************************)
(* Claims about ReferenceSpecies.                                          *)
(***************************************************************************)
IsMapping(value) == value.type = "dict"
HasData(value) == IsMapping(value) /\ value.items # <<>>
AllThermo(d) == \A i \in 1..Len(d.items) : d.items[i][2].thermo_data # None
UncertaintyOf(d, k) == GetItem(d, k).thermo_data.H298.uncertainty_si
\* the call just made is get_reference_enthalpy under the default policy
DefaultPolicyCall ==
    /\ ret.op = "get_reference_enthalpy"
    /\ ret.args.source = None
    /\ rs.preferred_reference = None
    /\ HasData(rs._reference_data)

\* C1: with no source argument and no preferred_reference, if some entry has
\* a strictly positive H298 uncertainty, the source returned is one whose
\* uncertainty is the smallest strictly positive one.
C1_SmallestPositiveUncertainty ==
    (/\ DefaultPolicyCall
     /\ AllThermo(rs._reference_data)
     /\ \E k \in Range(Keys(rs._reference_data)) :
            UncertaintyOf(rs._reference_data, k) > 0)
    => /\ ret.out.kind = "return"
       /\ LET u == UncertaintyOf(rs._reference_data, ret.out.value.source) IN
           /\ u > 0
           /\ \A k \in Range(Keys(rs._reference_data)) :
                 UncertaintyOf(rs._reference_data, k) > 0
                 => u <= UncertaintyOf(rs._reference_data, k)

\* the source an explicit argument or preferred_reference designates
C2_Designated ==
    IF ret.args.source # None THEN ret.args.source ELSE rs.preferred_reference
C2_DesignatedCall ==
    /\ ret.op = "get_reference_enthalpy"
    /\ HasData(rs._reference_data)
    /\ ret.args.source # None \/ rs.preferred_reference # None
C2_ReturnsOwnKey ==
    (ret.op = "get_reference_enthalpy" /\ ret.out.kind = "return")
    => /\ HasKey(rs._reference_data, ret.out.value.source)
       /\ ret.out.value.h298 =
             Reduce1(GetItem(rs._reference_data,
                             ret.out.value.source).thermo_data.H298)

\* C2 as stated: on non-empty reference_data the call returns the entry of
\* the source argument whenever one is given, else the entry of
\* preferred_reference whenever that is set, and the source named is the key
\* whose H298 is returned.
C2_DesignatedAlwaysReturned ==
    /\ C2_DesignatedCall
       => /\ ret.out.kind = "return"
          /\ ret.out.value.source = C2_Designated
    /\ C2_ReturnsOwnKey

\* C2 as amended: the designated source (argument before preferred_reference)
\* is returned whenever it is a key of reference_data whose entry carries
\* thermo data; a designated source that is no key raises KeyError naming it,
\* an entry without thermo data raises AttributeError; no other source is
\* ever substituted, and the source named is the key whose H298 is returned.
C2_DesignatedReturnedWhenPresent ==
    /\ C2_DesignatedCall
       => IF ~HasKey(rs._reference_data, C2_Designated)
          THEN ret.out = Raise("KeyError", C2_Designated)
          ELSE IF GetItem(rs._reference_data, C2_Designated).thermo_data = None
          THEN ret.out.kind = "raise" /\ ret.out.exc = "AttributeError"
          ELSE /\ ret.out.kind = "return"
               /\ ret.out.value.source = C2_Designated
    /\ C2_ReturnsOwnKey

\* the argument overrides a different preferred_reference, both being keys,
\* and the entry returned is not the one of smallest uncertainty
C2_Witness_ArgumentOverridesPreferred ==
    /\ C2_DesignatedCall
    /\ ret.args.source # None
    /\ rs.preferred_reference # None
    /\ ret.args.source # rs.preferred_reference
    /\ HasKey(rs._reference_data, rs.preferred_reference)
    /\ ret.out.kind = "return"
    /\ ret.out.value.source = ret.args.source
    /\ AllThermo(rs._reference_data)
    /\ \E k \in Range(Keys(rs._reference_data)) :
          /\ UncertaintyOf(rs._reference_data, k) > 0
          /\ UncertaintyOf(rs._reference_data, k)
                < UncertaintyOf(rs._reference_data, ret.args.source)

\* C9: to_error_canceling_spcs for a model chemistry absent from
\* calculated_data raises KeyError naming it, before anything else is looked
\* at (also when reference_data is empty), and leaves the species as it was.
C9_KeyErrorFirst ==
    [][(/\ ret'.op = "to_error_canceling_spcs"
        /\ IsMapping(rs._calculated_data)
        /\ ~HasKey(rs._calculated_data, ret'.args.model_chemistry))
       => /\ ret'.out = Raise("KeyError", ret'.args.model_chemistry)
          /\ rs' = rs]_vars

\* the model chemistry is absent and reference_data is empty as well
C9_Witness_AbsentChemistryNoReferenceData ==
    /\ ret.op = "to_error_canceling_spcs"
    /\ IsMapping(rs._calculated_data)
    /\ ~HasKey(rs._calculated_data, ret.args.model_chemistry)
    /\ rs._reference_data = EmptyDict
    /\ ret.out.kind = "raise"

\* C10: with empty reference_data, get_reference_enthalpy raises the no-data
\* ValueError whatever the source argument and preferred_reference are, and
\* so does to_error_canceling_spcs for a model chemistry that is present.
C10_NoDataError ==
    /\ (ret.op = "get_reference_enthalpy" /\ rs._reference_data = EmptyDict)
       => ret.out = Raise("ValueError", "No reference data")
    /\ (/\ ret.op = "to_error_canceling_spcs"
        /\ rs._reference_data = EmptyDict
        /\ IsMapping(rs._calculated_data)
        /\ HasKey(rs._calculated_data, ret.args.model_chemistry))
       => ret.out = Raise("ValueError", "No reference data")

\* a present model chemistry, empty reference_data, and both a source
\* argument and a preferred_reference
C10_Witness_NoDataDespiteSource ==
    /\ ret.op = "to_error_canceling_spcs"
    /\ rs._reference_data = EmptyDict
    /\ IsMapping(rs._calculated_data)
    /\ HasKey(rs._calculated_data, ret.args.model_chemistry)
    /\ ret.args.source # None
    /\ rs.preferred_reference # None
    /\ ret.out.kind = "raise"

\* a non-empty value the setter of a data mapping must not take
C5_Invalid(value, entry_type) ==
    /\ ~Falsy(value)
    /\ \/ ~IsMapping(value)
       \/ ~AllStr(Keys(value))
       \/ ~AllOfType(Values(value), entry_type)

\* C5: assigning reference_data or calculated_data, at construction or
\* later, a non-empty non-mapping, a mapping with a non-string key or a
\* mapping with a value of the wrong entry kind raises a validation error.
C5_InvalidAssignmentFails ==
    /\ (/\ ret.op = "reference_data.setter"
        /\ C5_Invalid(ret.args, "ReferenceDataEntry"))
       => ret.out.kind = "raise"
    /\ (/\ ret.op = "calculated_data.setter"
        /\ C5_Invalid(ret.args, "CalculatedDataEntry"))
       => ret.out.kind = "raise"
    /\ (/\ ret.op = "__init__"
        /\ \/ C5_Invalid(ret.args.reference_data, "ReferenceDataEntry")
           \/ C5_Invalid(ret.args.calculated_data, "CalculatedDataEntry"))
       => ret.out.kind = "raise"

\* C6: once construction has returned, reference_data and calculated_data are
\* mappings, whatever assignments and merges follow.
C6_MappingsAlwaysDefined ==
    rs # NoObject
    => IsMapping(rs._reference_data) /\ IsMapping(rs._calculated_data)

(***************************************************************************)
(* Claims about ReferenceDatabase.load.                                    *)
(***************************************************************************)
\* the paths of the load call just made, and the file at place j of path k
CallPaths == PathList(ret.args.paths)
FileAt(k, j) == fs[CallPaths[k]][j]
\* the places (path, file) of the paths the call worked through, in the
\* order load meets them
Places ==
    {<<k, j>> \in (1..ret.completed) \X (1..MaxFiles + 1) :
        j <= Len(fs[CallPaths[k]])}
Earlier(p, q) == p[1] < q[1] \/ (p[1] = q[1] /\ p[2] < q[2])
\* the file holds reference data and calculated data
DocHasData(doc) == HasData(doc.reference_data) /\ HasData(doc.calculated_data)
SameMolecule(doc1, doc2) ==
    MoleculeOfText[doc1.adjacency_list.s] = MoleculeOfText[doc2.adjacency_list.s]
\* the file at place p has data and no file with data met before it is of
\* the same molecule
FirstOfGroup(p) ==
    /\ DocHasData(FileAt(p[1], p[2]))
    /\ \A q \in Places :
          (Earlier(q, p) /\ DocHasData(FileAt(q[1], q[2])))
          => ~SameMolecule(FileAt(q[1], q[2]), FileAt(p[1], p[2]))
\* the species held in the database, by set name and position
Held == {<<n, i>> \in (DOMAIN reference_sets) \X (1..MaxFiles + 1) :
            i <= Len(reference_sets[n])}
HeldSpecies(h) == reference_sets[h[1]][h[2]]
\* the last path worked through whose set name is n (0 if none)
LastPathOf(n) ==
    IF \E k \in 1..ret.completed : Basename(CallPaths[k]) = n
    THEN CHOOSE k \in 1..ret.completed :
            /\ Basename(CallPaths[k]) = n
            /\ \A k2 \in 1..ret.completed :
                  Basename(CallPaths[k2]) = n => k2 <= k
    ELSE 0

\* C3: after one load call on a new database no two species held (in one
\* set or in two) are isomorphic, and every species held comes from the file
\* that was the first with data of its molecule, in path-then-file order.
C3_NoIsomorphicPairFirstKept ==
    (ret.op = "load" /\ loads = 1)
    => /\ \A g, h \in Held :
             g # h => MoleculeOfText[HeldSpecies(g).adjacency_list.s]
                        # MoleculeOfText[HeldSpecies(h).adjacency_list.s]
       /\ \A h \in Held :
             \E p \in Places :
                /\ p[1] = LastPathOf(h[1])
                /\ load_yaml(FileAt(p[1], p[2])) = Return(HeldSpecies(h))
                /\ FirstOfGroup(p)

\* one call met files of one molecule, both with data, under two set
\* names, and kept the first
C3_Witness_DuplicateAcrossSets ==
    /\ ret.op = "load" /\ loads = 1
    /\ ret.out.kind = "return"
    /\ \E p, q \in Places :
          /\ p[1] < q[1]
          /\ Basename(CallPaths[p[1]]) # Basename(CallPaths[q[1]])
          /\ DocHasData(FileAt(p[1], p[2]))
          /\ DocHasData(FileAt(q[1], q[2]))
          /\ SameMolecule(FileAt(p[1], p[2]), FileAt(q[1], q[2]))
          /\ \E h \in Held :
                /\ h[1] = Basename(CallPaths[p[1]])
                /\ load_yaml(FileAt(p[1], p[2])) = Return(HeldSpecies(h))
          /\ Len(reference_sets[Basename(CallPaths[q[1]])])
                < Len(fs[CallPaths[q[1]]])

\* C4: right after a load call every species in every sequence the call
\* assigned has at least one calculated_data and one reference_data entry.
C4_AssignedSpeciesHaveData ==
    ret.op = "load"
    => \A k \in 1..ret.completed :
          LET reference_set == reference_sets[Basename(CallPaths[k])] IN
          \A i \in 1..Len(reference_set) :
             /\ HasData(reference_set[i]._calculated_data)
             /\ HasData(reference_set[i]._reference_data)

\* a call that met a file without calculated data and one without reference
\* data and assigned a set that is not empty
C4_Witness_FilesWithoutDataSkipped ==
    /\ ret.op = "load"
    /\ ret.out.kind = "return"
    /\ \E p, q \in Places :
          /\ ~HasData(FileAt(p[1], p[2]).calculated_data)
          /\ ~HasData(FileAt(q[1], q[2]).reference_data)
          /\ reference_sets[Basename(CallPaths[p[1]])] # <<>>
          /\ reference_sets[Basename(CallPaths[q[1]])] # <<>>

(***************************************************************************)
(* Claims about the queries of ReferenceDatabase.                          *)
(***************************************************************************)
C7_IsLookup(call) ==
    call.op \in {"get_species_from_index", "get_species_from_label"}
C7_Field(call) ==
    IF call.op = "get_species_from_index" THEN "index" ELSE "label"
\* the requested keys, each as the lookup compares it
C7_Keys(call) ==
    LET raw == IF call.op = "get_species_from_index"
               THEN AsList(call.args.indices) ELSE AsList(call.args.labels)
    IN  [k \in 1..Len(raw) |->
            IF call.op = "get_species_from_index"
            THEN ToInt(raw[k]).value ELSE ToStr(raw[k]).value]
C7_Matches(set, field, key) == {i \in 1..Len(set) : set[i][field] = key}
C7_First(set, field, key) ==
    CHOOSE i \in C7_Matches(set, field, key) :
        \A j \in C7_Matches(set, field, key) : i <= j

C8_Qualifies(ref_spcs, model_chemistry) ==
    /\ \E i \in 1..Len(ref_spcs._calculated_data.items) :
          ref_spcs._calculated_data.items[i][1] = model_chemistry
    /\ ref_spcs._reference_data.items # <<>>
\* the qualifying species of the sets named from names[k] on, set after set,
\* each set in its stored order
RECURSIVE C8_Expected(_, _, _)
C8_Expected(names, k, model_chemistry) ==
    IF k > Len(names) THEN <<>>
    ELSE SelectSeq(reference_sets[names[k]],
                   LAMBDA ref_spcs : C8_Qualifies(ref_spcs, model_chemistry))
         \o C8_Expected(names, k + 1, model_chemistry)
C8_Call ==
    /\ ret.op = "extract_model_chemistry"
    /\ ~ret.args.as_error_canceling_species
    /\ Range(ret.names) \subseteq DOMAIN reference_sets

\* C8: extract_model_chemistry with as_error_canceling_species false, over
\* sets that exist (all of them when sets is omitted), returns exactly the
\* species of those sets that have a calculated_data entry for the model
\* chemistry and reference data, the species of one set in their stored
\* order.
C8_ExactlyTheQualifying ==
    C8_Call
    => /\ ret.out.kind = "return"
       /\ Range(ret.out.value) =
             {reference_sets[n][i] : <<n, i>> \in
                 {h \in Held :
                     /\ h[1] \in Range(ret.names)
                     /\ C8_Qualifies(HeldSpecies(h),
                                      ret.args.model_chemistry)}}
       /\ ret.out.value =
             C8_Expected(ret.names, 1, ret.args.model_chemistry)

\* all sets are searched; one species is returned, one has the model
\* chemistry but no reference data, one lacks the model chemistry
C8_Witness_BothFiltersApply ==
    /\ C8_Call
    /\ ret.args.sets = None
    /\ ret.out.kind = "return"
    /\ ret.out.value # <<>>
    /\ \E g, h \in Held :
          /\ HasKey(HeldSpecies(g)._calculated_data, ret.args.model_chemistry)
          /\ HeldSpecies(g)._reference_data = EmptyDict
          /\ ~HasKey(HeldSpecies(h)._calculated_data, ret.args.model_chemistry)
          /\ HeldSpecies(h)._reference_data # EmptyDict

(***************************************************************************)
(* Claims about a database over several load calls.                        *)
(***************************************************************************)
\* the species of sets, whatever set holds them
SpeciesOf(sets) ==
    UNION {Range(sets[n]) : n \in DOMAIN sets}

\* C11: reference_sets is empty on a new database, and over load calls no
\* set name is ever removed and every species held before a call is still
\* held after it.
C11_GrowsMonotonically ==
    /\ reference_sets = NoSets
    /\ [][/\ DOMAIN reference_sets \subseteq DOMAIN reference_sets'
          /\ SpeciesOf(reference_sets) \subseteq SpeciesOf(reference_sets')]_vars

\* the file makes load raise: load_yaml fails on it, or it leaves a data
\* field unassigned that load then reads
C12_Fails(doc) ==
    LET r == load_yaml(doc) IN
    r.kind = "raise" \/ LacksData(r.value).kind = "raise"
C12_Error(doc) ==
    LET r == load_yaml(doc) IN
    IF r.kind = "raise" THEN r ELSE LacksData(r.value)
\* the places of the failing files among paths, and the first of them in
\* the order load meets them
C12_FailingPlaces(paths) ==
    {<<k, j>> \in (1..Len(paths)) \X (1..MaxFiles + 1) :
        j <= Len(fs[paths[k]]) /\ C12_Fails(fs[paths[k]][j])}
C12_FirstFailing(places) ==
    CHOOSE p \in places : \A q \in places : p = q \/ Earlier(p, q)
\* n is in both mappings with one value, or in neither
C12_Same(sets1, sets2, n) ==
    /\ n \in DOMAIN sets1 <=> n \in DOMAIN sets2
    /\ n \in DOMAIN sets1 => sets1[n] = sets2[n]
\* what a load call on paths whose first failing file is at place p does
\* whatever the set names: the error of that file reaches the caller, and
\* reference_sets is left as a call on the paths before the failing one
\* leaves it
C12_Aborts(paths, p) ==
    /\ ret'.out = C12_Error(fs[paths[p[1]]][p[2]])
    /\ ret'.completed = p[1] - 1
    /\ reference_sets' =
          LoadPaths(SubSeq(paths, 1, p[1] - 1), 1, reference_sets,
                    <<>>, fs).reference_sets
    /\ \A k \in 1..(p[1] - 1) :
          Basename(paths[k]) \in DOMAIN reference_sets'

\* C12 as stated: a failing file aborts the load call, and the set named by
\* the failing path has after the call exactly the value it had before it.
C12_FailingSetKeepsValueBeforeCall ==
    [][loads' = loads + 1
       => LET paths == PathList(ret'.args.paths)
              places == C12_FailingPlaces(paths)
              p == C12_FirstFailing(places)
          IN  places # {}
              => /\ C12_Aborts(paths, p)
                 /\ C12_Same(reference_sets', reference_sets,
                             Basename(paths[p[1]]))
      ]_vars

\* C12 amended: a failing file aborts the load call: its error reaches the
\* caller, no later file or path is worked on, the sets of the paths worked
\* through before stay assigned, and every set whose name no earlier path of
\* the call bears, that of the failing path among them, has the value it had
\* before the call.
C12_FailureAbortsLoad ==
    [][loads' = loads + 1
       => LET paths == PathList(ret'.args.paths)
              places == C12_FailingPlaces(paths)
              p == C12_FirstFailing(places)
              earlier == {Basename(paths[k]) : k \in 1..(p[1] - 1)}
          IN  places # {}
              => /\ C12_Aborts(paths, p)
                 /\ \A n \in (DOMAIN reference_sets
                                \cup DOMAIN reference_sets') \ earlier :
                       C12_Same(reference_sets', reference_sets, n)
      ]_vars

\* a second call failed in its second path: the set of the first path was
\* assigned, the set named by the failing path still holds the species of the
\* first call
C12_Witness_AbortInSecondPath ==
    /\ ret.op = "load" /\ loads = 2
    /\ ret.out.kind = "raise"
    /\ ret.completed = 1
    /\ LET failing == Basename(CallPaths[2]) IN
       /\ failing # Basename(CallPaths[1])
       /\ failing \in DOMAIN reference_sets
       /\ reference_sets[failing] # <<>>
       /\ reference_sets[Basename(CallPaths[1])] # <<>>

(***************************************************************************)
(* Further claims about ReferenceSpecies and its entries.                  *)
(***************************************************************************)
\* the place of key k in the iteration order of mapping d
C13_Position(d, k) == CHOOSE i \in 1..Len(d.items) : d.items[i][1] = k
\* the places whose H298 uncertainty is the smallest strictly positive one
C13_SmallestPositive(d) ==
    LET u(i) == d.items[i][2].thermo_data.H298.uncertainty_si IN
    {i \in 1..Len(d.items) :
        /\ u(i) > 0
        /\ \A j \in 1..Len(d.items) : u(j) > 0 => u(i) <= u(j)}

\* C13: under the default policy a source whose H298 uncertainty is zero or
\* negative is returned only if it is the first in iteration order, and when
\* several sources share the smallest strictly positive uncertainty the
\* earliest of them is the one returned.
C13_FirstOnlyFallbackEarliestOfTies ==
    (DefaultPolicyCall /\ AllThermo(rs._reference_data))
    => /\ ret.out.kind = "return"
       /\ LET d == rs._reference_data
              at == C13_Position(d, ret.out.value.source)
              least == C13_SmallestPositive(d)
          IN  /\ UncertaintyOf(d, ret.out.value.source) <= 0 => at = 1
              /\ Cardinality(least) >= 2
                 => /\ at \in least
                    /\ \A i \in least : at <= i

\* C14: update_from_arkane_spcs with a result at level of theory L leaves
\* calculated_data with an entry at L that holds the result's conformer and
\* thermo data and neither t1_diagnostic nor fod, leaves the entries at the
\* other keys, reference_data, preferred_reference, index and label as they
\* were, and a to_error_canceling_spcs(L) made next does not raise the
\* KeyError naming L.
C14_MergeFrame ==
    [][/\ (ret'.op = "update_from_arkane_spcs"
           /\ IsMapping(rs._calculated_data))
          => LET a == ret'.args
                 L == a.level_of_theory
                 before == rs._calculated_data
                 after == rs'._calculated_data
             IN  /\ ret'.out = Return(None)
                 /\ HasKey(after, L)
                 /\ LET entry == GetItem(after, L) IN
                    /\ entry.type = "CalculatedDataEntry"
                    /\ entry.conformer = a.conformer
                    /\ a.thermo_data # None => entry.thermo_data = a.thermo_data
                    /\ entry.t1_diagnostic = None
                    /\ entry.fod = None
                 /\ Range(Keys(after)) = Range(Keys(before)) \cup {L}
                 /\ \A k \in Range(Keys(before)) \ {L} :
                       GetItem(after, k) = GetItem(before, k)
                 /\ rs'._reference_data = rs._reference_data
                 /\ rs'.preferred_reference = rs.preferred_reference
                 /\ rs'.index = rs.index
                 /\ rs'.label = rs.label
       /\ (/\ ret.op = "update_from_arkane_spcs"
           /\ ret.out.kind = "return"
           /\ ret'.op = "to_error_canceling_spcs"
           /\ ret'.args.model_chemistry = ret.args.level_of_theory)
          => ~(ret'.out.kind = "raise" /\ ret'.out.exc = "KeyError"
               /\ ret'.out.about = ret.args.level_of_theory)
      ]_vars

\* a result was merged at a level of theory next to an entry at another one,
\* into a species that has reference data
C14_Witness_MergedNextToOtherKey ==
    /\ ret.op = "update_from_arkane_spcs"
    /\ ret.out.kind = "return"
    /\ ret.args.thermo_data # None
    /\ Len(rs._calculated_data.items) = 2
    /\ GetItem(rs._calculated_data, ret.args.level_of_theory).thermo_data
          = ret.args.thermo_data
    /\ HasData(rs._reference_data)

\* the entries of a data mapping of the species (none if the attribute is no
\* mapping)
C15_Entries(value) ==
    IF value # Undefined /\ IsMapping(value) THEN Range(Values(value)) ELSE {}

\* C15: the thermo_data of a CalculatedDataEntry follows the setter rule of
\* ReferenceDataEntry: the entry update_from_arkane_spcs constructs holds the
\* thermo data given, or None when none is given, and the thermo_data of
\* every constructed entry of either kind can be read.
C15_ThermoDataDefined ==
    /\ (ret.op = "update_from_arkane_spcs" /\ ret.out.kind = "return")
       => GetItem(rs._calculated_data, ret.args.level_of_theory).thermo_data
             = RDE_thermo_data_setter(ret.args.thermo_data).value
    /\ rs # NoObject
       => \A entry \in C15_Entries(rs._reference_data)
                        \cup C15_Entries(rs._calculated_data) :
             entry.thermo_data # Undefined

\* C16: when a load call returns, for every file it skipped as a duplicate
\* (a file with data whose molecule an earlier file with data of the call
\* has) the database holds a species of that molecule, whatever the paths.
C16_SkippedDuplicateStillHeld ==
    (ret.op = "load" /\ ret.out.kind = "return")
    => \A p \in Places :
          (DocHasData(FileAt(p[1], p[2])) /\ ~FirstOfGroup(p))
          => \E h \in Held :
                MoleculeOfText[HeldSpecies(h).adjacency_list.s]
                   = MoleculeOfText[FileAt(p[1], p[2]).adjacency_list.s]

(***************************************************************************)
(* Claims about extract_model_chemistry as ErrorCancelingSpecies.          *)
(***************************************************************************)
C17_Call ==
    /\ ret.op = "extract_model_chemistry"
    /\ ret.args.as_error_canceling_species
    /\ Range(ret.names) \subseteq DOMAIN reference_sets
\* the species the call collects, in its order
C17_Collected == C8_Expected(ret.names, 1, ret.args.model_chemistry)
\* the record is the ErrorCancelingSpecies of ref_spcs: its structure, the
\* H298 of its entry for the model chemistry, and the H298 of one of its own
\* sources, named
C17_RecordOf(record, ref_spcs, model_chemistry) ==
    /\ record.type = "ErrorCancelingSpecies"
    /\ record.molecule = ref_spcs.adjacency_list
    /\ record.model_chemistry = model_chemistry
    /\ record.low_level_hf298 =
          Reduce1(GetItem(ref_spcs._calculated_data,
                          model_chemistry).thermo_data.H298)
    /\ HasKey(ref_spcs._reference_data, record.source)
    /\ record.high_level_hf298 =
          Reduce1(GetItem(ref_spcs._reference_data,
                          record.source).thermo_data.H298)
    /\ ref_spcs.preferred_reference # None
       => record.source = ref_spcs.preferred_reference
\* preferred_reference, if set, names a source of the species
C17_PreferredIsSource(ref_spcs) ==
    ref_spcs.preferred_reference # None
    => HasKey(ref_spcs._reference_data, ref_spcs.preferred_reference)
\* the entries the conversion reads carry thermo data: the entry for the
\* model chemistry, and the entry of preferred_reference or, without one,
\* every reference entry
C17_ThermoPresent(ref_spcs, model_chemistry) ==
    /\ GetItem(ref_spcs._calculated_data, model_chemistry).thermo_data
          \notin {Undefined, None}
    /\ IF ref_spcs.preferred_reference = None
       THEN AllThermo(ref_spcs._reference_data)
       ELSE GetItem(ref_spcs._reference_data,
                    ref_spcs.preferred_reference).thermo_data # None
C17_Convertible(ref_spcs, model_chemistry) ==
    /\ C17_PreferredIsSource(ref_spcs)
    /\ C17_ThermoPresent(ref_spcs, model_chemistry)

\* C17 as stated: extract_model_chemistry with as_error_canceling_species
\* true, over sets that exist, never fails: it returns one record per
\* collected species, in the same order, whatever preferred_reference the
\* species carry.
C17_ConversionNeverFails ==
    C17_Call
    => /\ ret.out.kind = "return"
       /\ Len(ret.out.value) = Len(C17_Collected)
       /\ \A k \in 1..Len(C17_Collected) :
             C17_RecordOf(ret.out.value[k], C17_Collected[k],
                          ret.args.model_chemistry)

\* C17 amended: the call returns one record per collected species, in the
\* same order, when for every collected species preferred_reference is unset
\* or names one of its sources and the entries the conversion reads carry
\* thermo data; otherwise it fails at the first collected species for which
\* that is not so, with KeyError naming a preferred_reference that is no
\* source, else with AttributeError.  It never fails with the KeyError
\* naming the model chemistry or the no-data ValueError.
C17_ConversionFailsOnlyOnBadSource ==
    C17_Call
    => LET collected == C17_Collected
           mc == ret.args.model_chemistry
           bad == {k \in 1..Len(collected) : ~C17_Convertible(collected[k], mc)}
       IN  IF bad = {}
           THEN /\ ret.out.kind = "return"
                /\ Len(ret.out.value) = Len(collected)
                /\ \A k \in 1..Len(collected) :
                      C17_RecordOf(ret.out.value[k], collected[k], mc)
           ELSE LET first == collected[CHOOSE k \in bad :
                                          \A k2 \in bad : k <= k2]
                IN  /\ ret.out.kind = "raise"
                    /\ IF ~C17_PreferredIsSource(first)
                       THEN ret.out = Raise("KeyError",
                                            first.preferred_reference)
                       ELSE ret.out.exc = "AttributeError"

\* two species were converted, in the order collected, one of them through
\* its preferred_reference and one by the default policy
C17_Witness_TwoRecordsInOrder ==
    /\ C17_Call
    /\ ret.out.kind = "return"
    /\ Len(ret.out.value) = 2
    /\ C17_Collected[1].preferred_reference = None
    /\ C17_Collected[2].preferred_reference # None
    /\ ret.out.value[2].source = C17_Collected[2].preferred_reference
    /\ \E h \in Held : h[1] \in Range(ret.names)
                       /\ ~C8_Qualifies(HeldSpecies(h), ret.args.model_chemistry)

====
